---------------------------- MODULE Spec2Model ----------------------------
(***************************************************************************)
(* A model of reach_out.py: the outreach batch run.  One run selects a     *)
(* backend (Google Sheets, else data.csv), loads the table into df, and    *)
(* walks the rows: check_row, generate_message, send_email or              *)
(* send_instagram, and the write-back of Contacted = Yes.                  *)
(*                                                                         *)
(* Row indices are Python's (0-based); TLA+ sequences are 1-based, so      *)
(* df.iloc[i] is df.rows[i + 1] and sheet row r is sheet[r].               *)
(***************************************************************************)
EXTENDS Integers, Sequences, FiniteSets, TLC

VARIABLES
    pc,                   \* "select" | "loop" | "done" | "load_failed" | "crashed"
    using_google_sheets,  \* the module-level flag of line 168
    df,                   \* the in-memory table: [columns, rows]
    sheet,                \* the remote worksheet: all values, row 1 the header
    csv,                  \* data.csv: its cells as text, line 1 the header
    i,                    \* the loop variable of line 299
    orig,                 \* the backends' content when the run started
    attempts,             \* the loads attempted, in order
    verdicts,             \* what check_row returned and printed, per row reached
    rendered,             \* the rows generate_message returned for
    calls,                \* the sender invocations, in order
    writes,               \* the backend write-backs, in order
    fresh                 \* a fresh load after a write-back (round trip only)

vars == <<pc, using_google_sheets, df, sheet, csv, i, orig, attempts,
          verdicts, rendered, calls, writes, fresh>>

(***************************************************************************)
(* Bounds of the model.                                                    *)
(***************************************************************************)
MaxRows == 2
MaxRTRows == 2

(***************************************************************************)
(* Cell values.  A worksheet or file cell is a text; pandas' read_csv      *)
(* turns the texts of NaValues into the float nan, which is no text.       *)
(***************************************************************************)
NaN == "<float nan>"

NaValues == {"", "#N/A", "N/A", "NA", "NULL", "NaN", "n/a", "nan", "null"}

\* The characters of the texts used as handles (TLC cannot index a string).
HandleChars ==
    [h \in {"a@b.co", "jo_1", "a@b", "", "a@b.c@d", "jo-1", "jo\n"} |->
        CASE h = "a@b.co"  -> <<"a", "@", "b", ".", "c", "o">>
          [] h = "jo_1"    -> <<"j", "o", "_", "1">>
          [] h = "a@b"     -> <<"a", "@", "b">>
          [] h = ""        -> <<>>
          [] h = "a@b.c@d" -> <<"a", "@", "b", ".", "c", "@", "d">>
          [] h = "jo-1"    -> <<"j", "o", "-", "1">>
          [] h = "jo\n"    -> <<"j", "o", "\n">>]

WordChars ==
    {"a", "b", "c", "d", "e", "f", "g", "h", "i", "j", "k", "l", "m", "n", "o",
     "p", "q", "r", "s", "t", "u", "v", "w", "x", "y", "z",
     "A", "B", "C", "D", "E", "F", "G", "H", "I", "J", "K", "L", "M", "N", "O",
     "P", "Q", "R", "S", "T", "U", "V", "W", "X", "Y", "Z",
     "0", "1", "2", "3", "4", "5", "6", "7", "8", "9", "_", "."}

\* re.match(r"[^@]+@[^@]+\.[^@]+", s): anchored at the start only.
match_email(s) ==
    \E p \in 2..Len(s) :
        /\ s[p] = "@"
        /\ \A j \in 1..(p - 1) : s[j] # "@"
        /\ \E q \in (p + 2)..(Len(s) - 1) :
              /\ s[q] = "."
              /\ \A j \in (p + 1)..(q - 1) : s[j] # "@"
              /\ s[q + 1] # "@"

\* re.match(r"^[a-zA-Z0-9_.]+$", s): $ also matches before a final newline.
match_handle(s) ==
    LET body == IF Len(s) > 0 /\ s[Len(s)] = "\n"
                THEN SubSeq(s, 1, Len(s) - 1) ELSE s
    IN  /\ Len(body) > 0
        /\ \A j \in 1..Len(body) : body[j] \in WordChars

(***************************************************************************)
(* The template files of the working directory, as tokens.  The file of    *)
(* f"{Message_Type}_{Language}.txt" is named by the pair of the two.       *)
(***************************************************************************)
SEP == "}\n\n"

TemplateFiles ==
    [f \in {<<"invite", "EN">>, <<"invite", "FR">>, <<"broken", "EN">>,
            <<"twice", "EN">>, <<"blank", "EN">>} |->
        CASE f = <<"invite", "EN">> ->
                 <<"{Subject: ", "Hi ", "[Name]", SEP, "Come to ", "[Event Name]", "!">>
          [] f = <<"invite", "FR">> ->
                 <<"{Subject: ", "Salut ", "[Name]", SEP, "Viens a ", "[Event Name]">>
          [] f = <<"broken", "EN">> ->
                 <<"{Subject: ", "Hi ", "[Name]", "}\n", "Come to ", "[Event Name]">>
          [] f = <<"twice", "EN">> ->
                 <<"{Subject: ", "Hi", SEP, "Come", SEP, "Bye">>
          [] f = <<"blank", "EN">> ->
                 <<"{Subject: ", SEP, "Come to ", "[Event Name]">>]

\* str() of a cell inside an f-string.
format(v) == IF v = NaN THEN "nan" ELSE v

message_file_name(row) == <<format(row.Message_Type), format(row.Language)>>

path_exists(f) == f \in DOMAIN TemplateFiles

(***************************************************************************)
(* Data source adapter.                                                    *)
(***************************************************************************)
\* list.index: the first position of x.
index(seq, x) == CHOOSE k \in 1..Len(seq) : seq[k] = x /\ \A j \in 1..(k - 1) : seq[j] # x

Range(seq) == {seq[k] : k \in 1..Len(seq)}

\* pd.DataFrame(values, columns=header): each row maps a column name to its cell.
DataFrame(values, header) ==
    [columns |-> header,
     rows    |-> [r \in 1..Len(values) |->
                    [c \in Range(header) |-> values[r][index(header, c)]]]]

\* get_data_from_google_sheets, after the client was obtained: the first row is
\* the header, the cells stay the texts they are.
get_data_from_google_sheets(data) ==
    IF Len(data) > 0
    THEN DataFrame(SubSeq(data, 2, Len(data)), data[1])
    ELSE [columns |-> <<>>, rows |-> <<>>]

\* pd.read_csv('data.csv'): the first line is the header; a cell whose text is
\* one of NaValues is read as nan.
read_csv(file) ==
    DataFrame([r \in 1..(Len(file) - 1) |->
                  [c \in 1..Len(file[r + 1]) |->
                      IF file[r + 1][c] \in NaValues THEN NaN ELSE file[r + 1][c]]],
              file[1])

\* df.to_csv('data.csv', index=False): the whole file is written again, nan as
\* the empty text.
to_csv(d) ==
    <<d.columns>> \o
    [r \in 1..Len(d.rows) |->
        [c \in 1..Len(d.columns) |->
            IF d.rows[r][d.columns[c]] = NaN THEN "" ELSE d.rows[r][d.columns[c]]]]

\* worksheet.update_cell(row, col, value); the grid is blank beyond its values.
update_cell(ws, row, col, value) ==
    LET height == IF row > Len(ws) THEN row ELSE Len(ws)
        width(r) == LET w == IF r <= Len(ws) THEN Len(ws[r]) ELSE 0
                    IN  IF r = row /\ col > w THEN col ELSE w
    IN  [r \in 1..height |->
            [c \in 1..width(r) |->
                IF r = row /\ c = col THEN value
                ELSE IF r <= Len(ws) /\ c <= Len(ws[r]) THEN ws[r][c] ELSE ""]]

\* Mutant of update_google_sheets_row: the header row is not counted in row_num.
update_google_sheets_row_no_header(ws, row_index, column_name, value, api_ok) ==
    IF ~api_ok \/ Len(ws) = 0 THEN [ret |-> FALSE, sheet |-> ws]
    ELSE LET headers == ws[1] IN
         IF column_name \notin Range(headers) THEN [ret |-> FALSE, sheet |-> ws]
         ELSE LET col_index == index(headers, column_name)
                  row_num   == row_index + 1
              IN  [ret |-> TRUE, sheet |-> update_cell(ws, row_num, col_index, value)]

\* update_google_sheets_row(row_index, column_name, value); api_ok is whether
\* the client was obtained and no call raised.
update_google_sheets_row(ws, row_index, column_name, value, api_ok) ==
    IF ~api_ok \/ Len(ws) = 0 THEN [ret |-> FALSE, sheet |-> ws]
    ELSE LET headers == ws[1] IN
         IF column_name \notin Range(headers) THEN [ret |-> FALSE, sheet |-> ws]
         ELSE LET col_index == index(headers, column_name)
                  row_num   == row_index + 2
              IN  [ret |-> TRUE, sheet |-> update_cell(ws, row_num, col_index, value)]

(***************************************************************************)
(* Row validator.  The result is what check_row returned, or that it       *)
(* raised, and the diagnostics it printed.                                 *)
(***************************************************************************)
Returned(b, printed) == [raised |-> FALSE, ret |-> b, out |-> printed]
Raised == [raised |-> TRUE, ret |-> FALSE, out |-> <<>>]

\* Mutant of check_row: the rule on Contacted = Yes is missing.
check_row_resend(row) ==
    IF row.Channel \notin {"email", "instagram", "soundcloud"}
        THEN Returned(FALSE, <<"Invalid channel">>)
    ELSE IF row.Channel \in {"email", "instagram"} /\ row.Handle = NaN
        THEN Raised
    ELSE IF row.Channel = "email" /\ ~match_email(HandleChars[row.Handle])
        THEN Returned(FALSE, <<"Invalid email">>)
    ELSE IF row.Channel = "instagram" /\ ~match_handle(HandleChars[row.Handle])
        THEN Returned(FALSE, <<"Invalid Instagram handle">>)
    ELSE IF row.Channel = "soundcloud"
        THEN Returned(FALSE, <<"Soundcloud not supported yet">>)
    ELSE IF row.Name = ""
        THEN Returned(FALSE, <<"Empty Name">>)
    ELSE IF row.Event_Name = ""
        THEN Returned(FALSE, <<"Empty Event Name">>)
    ELSE IF row.Language \notin {"EN", "FR"}
        THEN Returned(FALSE, <<"Invalid language">>)
    ELSE IF ~path_exists(message_file_name(row))
        THEN Returned(FALSE, <<"Message file not found">>)
    ELSE IF row.Contacted \notin {"Yes", "No"}
        THEN Returned(FALSE, <<"Invalid contacted">>)
    ELSE Returned(TRUE, <<>>)

\* Mutant of check_row: soundcloud is validated like instagram, not rejected.
check_row_soundcloud(row) ==
    IF row.Channel \notin {"email", "instagram", "soundcloud"}
        THEN Returned(FALSE, <<"Invalid channel">>)
    ELSE IF row.Handle = NaN
        THEN Raised
    ELSE IF row.Channel = "email" /\ ~match_email(HandleChars[row.Handle])
        THEN Returned(FALSE, <<"Invalid email">>)
    ELSE IF row.Channel = "instagram" /\ ~match_handle(HandleChars[row.Handle])
        THEN Returned(FALSE, <<"Invalid Instagram handle">>)
    ELSE IF row.Channel = "soundcloud" /\ ~match_handle(HandleChars[row.Handle])
        THEN Returned(FALSE, <<"Invalid SoundCloud handle">>)
    ELSE IF row.Name = ""
        THEN Returned(FALSE, <<"Empty Name">>)
    ELSE IF row.Event_Name = ""
        THEN Returned(FALSE, <<"Empty Event Name">>)
    ELSE IF row.Language \notin {"EN", "FR"}
        THEN Returned(FALSE, <<"Invalid language">>)
    ELSE IF ~path_exists(message_file_name(row))
        THEN Returned(FALSE, <<"Message file not found">>)
    ELSE IF row.Contacted \notin {"Yes", "No"}
        THEN Returned(FALSE, <<"Invalid contacted">>)
    ELSE IF row.Contacted = "Yes"
        THEN Returned(FALSE, <<"Already contacted">>)
    ELSE Returned(TRUE, <<>>)

check_row(row) ==
    IF row.Channel \notin {"email", "instagram", "soundcloud"}
        THEN Returned(FALSE, <<"Invalid channel">>)
    ELSE IF row.Channel \in {"email", "instagram"} /\ row.Handle = NaN
        THEN Raised   \* re.match on a float: TypeError
    ELSE IF row.Channel = "email" /\ ~match_email(HandleChars[row.Handle])
        THEN Returned(FALSE, <<"Invalid email">>)
    ELSE IF row.Channel = "instagram" /\ ~match_handle(HandleChars[row.Handle])
        THEN Returned(FALSE, <<"Invalid Instagram handle">>)
    ELSE IF row.Channel = "soundcloud"
        THEN Returned(FALSE, <<"Soundcloud not supported yet">>)
    ELSE IF row.Name = ""
        THEN Returned(FALSE, <<"Empty Name">>)
    ELSE IF row.Event_Name = ""
        THEN Returned(FALSE, <<"Empty Event Name">>)
    ELSE IF row.Language \notin {"EN", "FR"}
        THEN Returned(FALSE, <<"Invalid language">>)
    ELSE IF ~path_exists(message_file_name(row))
        THEN Returned(FALSE, <<"Message file not found">>)
    ELSE IF row.Contacted \notin {"Yes", "No"}
        THEN Returned(FALSE, <<"Invalid contacted">>)
    ELSE IF row.Contacted = "Yes"
        THEN Returned(FALSE, <<"Already contacted">>)
    ELSE Returned(TRUE, <<>>)

(***************************************************************************)
(* Template renderer.                                                      *)
(***************************************************************************)
RECURSIVE split(_, _)
\* str.split(sep) on the tokens of a text.
split(text, sep) ==
    IF sep \notin Range(text) THEN <<text>>
    ELSE LET k == index(text, sep)
         IN  <<SubSeq(text, 1, k - 1)>> \o split(SubSeq(text, k + 1, Len(text)), sep)

\* str.replace(old, new) on the tokens of a text; empty tokens vanish.
replace(text, old, new) ==
    SelectSeq([k \in 1..Len(text) |-> IF text[k] = old THEN new ELSE text[k]],
              LAMBDA t : t # "")

\* generate_message(row): (message, subject), or an exception.
generate_message(row) ==
    LET f == message_file_name(row) IN
    IF ~path_exists(f) THEN [raised |-> TRUE, message |-> <<>>, subject |-> <<>>]
    ELSE LET parts == split(TemplateFiles[f], SEP) IN
         IF Len(parts) # 2 \/ row.Name = NaN \/ row.Event_Name = NaN
         THEN [raised |-> TRUE, message |-> <<>>, subject |-> <<>>]
         ELSE [raised  |-> FALSE,
               subject |-> replace(replace(replace(parts[1], "{Subject: ", ""),
                                           "[Name]", row.Name),
                                   "[Event Name]", row.Event_Name),
               message |-> replace(replace(parts[2], "[Name]", row.Name),
                                   "[Event Name]", row.Event_Name)]

(***************************************************************************)
(* Channel senders.  smtp_ok is whether the SMTP session of lines 250-258  *)
(* went through without an exception.                                      *)
(***************************************************************************)
\* Mutant of send_email: the emptiness check of line 217 is missing.
send_email_unchecked(handle, message, subject, smtp_ok) == smtp_ok

send_email(handle, message, subject, smtp_ok) ==
    IF message = <<>> \/ subject = <<>> THEN FALSE ELSE smtp_ok

\* Mutant of send_instagram: the historical variant, which returned True.
send_instagram_true(handle, message) == TRUE

send_instagram(handle, message) == FALSE

(***************************************************************************)
(* The input table: the columns of the data source and the rows a run is   *)
(* tried on.  A row of the pool is the valid row Base with one field       *)
(* changed, or the channel and one more field.                             *)
(***************************************************************************)
Columns == <<"Name", "Event_Name", "Channel", "Handle", "Language", "Message_Type", "Contacted">>

Base == [Name |-> "Jo", Event_Name |-> "Gala", Channel |-> "email", Handle |-> "a@b.co",
         Language |-> "EN", Message_Type |-> "invite", Contacted |-> "No"]

RowPool ==
    {Base}
    \cup {[Base EXCEPT !.Name = ""], [Base EXCEPT !.Event_Name = ""]}
    \cup {[Base EXCEPT !.Channel = c] : c \in {"soundcloud", "fax"}}
    \cup {[Base EXCEPT !.Handle = h] : h \in {"jo_1", "a@b", "", "a@b.c@d"}}
    \cup {[Base EXCEPT !.Channel = "instagram", !.Handle = h] : h \in {"jo_1", "jo-1", "jo\n", ""}}
    \cup {[Base EXCEPT !.Language = l] : l \in {"FR", "DE"}}
    \cup {[Base EXCEPT !.Message_Type = m] : m \in {"broken", "twice", "blank", "ghost"}}
    \cup {[Base EXCEPT !.Contacted = c] : c \in {"Yes", "N/A"}}
    \cup {[Base EXCEPT !.Channel = "soundcloud", !.Handle = "jo_1"],
          [Base EXCEPT !.Channel = "soundcloud", !.Contacted = "Yes"],
          [Base EXCEPT !.Channel = "instagram", !.Handle = "jo_1", !.Contacted = "Yes"],
          [Base EXCEPT !.Channel = "instagram", !.Handle = "jo_1", !.Message_Type = "blank"]}

\* The values of a table as the worksheet or the file holds them.
Grid(header, table) ==
    <<header>> \o [r \in 1..Len(table) |-> [c \in 1..Len(header) |-> table[r][header[c]]]]

NoFrame == [columns |-> <<>>, rows |-> <<>>]

(***************************************************************************)
(* The run.                                                                *)
(***************************************************************************)
Init ==
    /\ \/ \E n \in 0..MaxRows : \E table \in [1..n -> RowPool] :
             orig = Grid(Columns, table)
       \/ orig = <<>>   \* an empty worksheet, an empty file
    /\ sheet = orig
    /\ csv = orig
    /\ pc = "select"
    /\ using_google_sheets = FALSE
    /\ df = NoFrame
    /\ i = 0
    /\ attempts = <<>>
    /\ verdicts = <<>>
    /\ rendered = {}
    /\ calls = <<>>
    /\ writes = <<>>
    /\ fresh = NoFrame

\* Lines 169-171: the load from Google Sheets returned.
LoadFromSheets ==
    /\ pc = "select"
    /\ attempts' = <<"sheets">>
    /\ df' = get_data_from_google_sheets(sheet)
    /\ using_google_sheets' = TRUE
    /\ pc' = "loop"
    /\ UNCHANGED <<sheet, csv, i, orig, verdicts, rendered, calls, writes, fresh>>

\* Lines 169-175: the load from Google Sheets raised; data.csv is read instead.
FallBackToCsv ==
    /\ pc = "select"
    /\ attempts' = <<"sheets", "csv">>
    /\ IF Len(csv) = 0
       THEN pc' = "load_failed" /\ df' = df   \* EmptyDataError, not caught
       ELSE pc' = "loop" /\ df' = read_csv(csv)
    /\ UNCHANGED <<using_google_sheets, sheet, csv, i, orig, verdicts, rendered, calls,
                   writes, fresh>>

\* Lines 308-312: the sender of the row's channel, if it has one.
dispatch(row, message, subject, smtp_ok) ==
    IF row.Channel = "email"
        THEN [fn |-> "send_email", ret |-> send_email(row.Handle, message, subject, smtp_ok)]
    ELSE IF row.Channel = "instagram"
        THEN [fn |-> "send_instagram", ret |-> send_instagram(row.Handle, message)]
    ELSE [fn |-> "none", ret |-> FALSE]

\* Mutant of write_back: the file is always written, whatever the backend in use.
write_back_always_csv(d, ws, file, remote, k, api_ok) ==
    LET marked == [d EXCEPT !.rows[k + 1].Contacted = "Yes"]
    IN  [df |-> marked, sheet |-> ws, csv |-> to_csv(marked),
         log |-> [row |-> k, backend |-> "csv", ok |-> TRUE]]

\* Mutant of write_back: the file is written before the row is marked.
write_back_stale(d, ws, file, remote, k, api_ok) ==
    LET marked == [d EXCEPT !.rows[k + 1].Contacted = "Yes"] IN
    IF remote
    THEN LET u == update_google_sheets_row(ws, k, "Contacted", "Yes", api_ok)
         IN  [df |-> marked, sheet |-> u.sheet, csv |-> file,
              log |-> [row |-> k, backend |-> "sheets", ok |-> u.ret]]
    ELSE [df |-> marked, sheet |-> ws, csv |-> to_csv(d),
          log |-> [row |-> k, backend |-> "csv", ok |-> TRUE]]

\* Lines 315-320: Contacted = Yes in memory, then in the backend in use.
write_back(d, ws, file, remote, k, api_ok) ==
    LET marked == [d EXCEPT !.rows[k + 1].Contacted = "Yes"] IN
    IF remote
    THEN LET u == update_google_sheets_row(ws, k, "Contacted", "Yes", api_ok)
         IN  [df |-> marked, sheet |-> u.sheet, csv |-> file,
              log |-> [row |-> k, backend |-> "sheets", ok |-> u.ret]]
    ELSE [df |-> marked, sheet |-> ws, csv |-> to_csv(marked),
          log |-> [row |-> k, backend |-> "csv", ok |-> TRUE]]

\* Lines 299-320: one iteration of the loop.
Iterate(smtp_ok, api_ok) ==
    LET row == df.rows[i + 1]
        v   == check_row(row)
        g   == generate_message(row)
        s   == dispatch(row, g.message, g.subject, smtp_ok)
        w   == write_back(df, sheet, csv, using_google_sheets, i, api_ok)
        ran == ~v.raised /\ v.ret /\ ~g.raised
    IN  /\ verdicts' = Append(verdicts, [row |-> i, raised |-> v.raised, ret |-> v.ret,
                                         out |-> v.out])
        /\ rendered' = IF ran THEN rendered \cup {i} ELSE rendered
        /\ calls' = IF ran /\ s.fn # "none"
                    THEN Append(calls, [row |-> i, fn |-> s.fn, handle |-> row.Handle,
                                        message |-> g.message, subject |-> g.subject,
                                        ret |-> s.ret])
                    ELSE calls
        /\ IF v.raised \/ (v.ret /\ g.raised)
           THEN pc' = "crashed" /\ i' = i
           ELSE pc' = pc /\ i' = i + 1
        /\ IF ran /\ s.ret
           THEN /\ df' = w.df
                /\ sheet' = w.sheet
                /\ csv' = w.csv
                /\ writes' = Append(writes, w.log)
           ELSE UNCHANGED <<df, sheet, csv, writes>>
        /\ UNCHANGED <<using_google_sheets, orig, attempts, fresh>>

LoopBody ==
    /\ pc = "loop"
    /\ i < Len(df.rows)
    /\ \E smtp_ok \in BOOLEAN, api_ok \in BOOLEAN : Iterate(smtp_ok, api_ok)

\* Line 299: range(len(df)) is exhausted.
LoopExit ==
    /\ pc = "loop"
    /\ i = Len(df.rows)
    /\ pc' = "done"
    /\ UNCHANGED <<using_google_sheets, df, sheet, csv, i, orig, attempts, verdicts,
                   rendered, calls, writes, fresh>>

Next == LoadFromSheets \/ FallBackToCsv \/ LoopBody \/ LoopExit

Spec == Init /\ [][Next]_vars

(***************************************************************************)
(* Round trip of update and load: a table of two columns in either order,  *)
(* loaded from either backend, one write-back of lines 315-320 at any row  *)
(* index, then a fresh load from the same backend.                         *)
(***************************************************************************)
RTHeaders == {<<"Name", "Contacted">>, <<"Contacted", "Name">>}

RTCells == {"Yes", "No", "N/A", "Jo"}

InitRT ==
    /\ \E header \in RTHeaders : \E n \in 1..MaxRTRows :
       \E table \in [1..n -> [Range(header) -> RTCells]] :
          orig = Grid(header, table)
    /\ sheet = orig
    /\ csv = orig
    /\ pc = "select"
    /\ using_google_sheets = FALSE
    /\ df = NoFrame
    /\ i = 0
    /\ attempts = <<>>
    /\ verdicts = <<>>
    /\ rendered = {}
    /\ calls = <<>>
    /\ writes = <<>>
    /\ fresh = NoFrame

\* Lines 315-320 applied to row k.
UpdateRow ==
    /\ pc = "loop"
    /\ \E k \in 0..(Len(df.rows) - 1) : \E api_ok \in BOOLEAN :
          LET w == write_back(df, sheet, csv, using_google_sheets, k, api_ok)
          IN  /\ df' = w.df
              /\ sheet' = w.sheet
              /\ csv' = w.csv
              /\ writes' = Append(writes, w.log)
              /\ i' = k
    /\ pc' = "updated"
    /\ UNCHANGED <<using_google_sheets, orig, attempts, verdicts, rendered, calls, fresh>>

\* Lines 169-175 of a later run: the load from the backend that was written.
Reload ==
    /\ pc = "updated"
    /\ fresh' = IF using_google_sheets THEN get_data_from_google_sheets(sheet)
                ELSE read_csv(csv)
    /\ pc' = "reloaded"
    /\ UNCHANGED <<using_google_sheets, df, sheet, csv, i, orig, attempts, verdicts,
                   rendered, calls, writes>>

NextRT == LoadFromSheets \/ FallBackToCsv \/ UpdateRow \/ Reload

SpecRT == InitRT /\ [][NextRT]_vars

(***************************************************************************)
(* What the properties speak of.                                           *)
(***************************************************************************)
Started == pc \in {"loop", "done", "crashed", "updated", "reloaded"}

\* The table as the run loaded it.
Loaded == IF using_google_sheets THEN get_data_from_google_sheets(orig) ELSE read_csv(orig)

\* The backend the rows were loaded from, and the other one.
Backend == IF using_google_sheets THEN sheet ELSE csv
OtherBackend == IF using_google_sheets THEN csv ELSE sheet
BackendName == IF using_google_sheets THEN "sheets" ELSE "csv"

\* The text of data row k (0-based) of a grid, in the column of that header.
Cell(grid, k, column) == grid[k + 2][index(grid[1], column)]

RowIds == 0..(Len(df.rows) - 1)

CallsOf(k) == {n \in 1..Len(calls) : calls[n].row = k}
WritesOf(k) == {n \in 1..Len(writes) : writes[n].row = k}
SentTo(k) == \E n \in CallsOf(k) : calls[n].ret

(***************************************************************************)
(* C1: no sender is invoked for a row whose Contacted is Yes when the row  *)
(* is reached: from a state in which row k is marked Yes, no step adds a   *)
(* sender invocation for row k.                                            *)
(***************************************************************************)
C1_NoSendToContacted ==
    [][\A k \in RowIds :
          df.rows[k + 1].Contacted = "Yes"
          => \A n \in (Len(calls) + 1)..Len(calls') : calls'[n].row # k]_vars

\* A row marked Yes was reached and turned away while another row was sent to.
C1_Witness ==
    /\ pc = "done"
    /\ \E k \in RowIds :
          /\ Loaded.rows[k + 1].Contacted = "Yes"
          /\ \E n \in 1..Len(verdicts) :
                verdicts[n].row = k /\ verdicts[n].out = <<"Already contacted">>
          /\ CallsOf(k) = {}
    /\ \E n \in 1..Len(calls) : calls[n].ret

(***************************************************************************)
(* C3 as stated: at the end of a run every row whose send returned true    *)
(* has Contacted = Yes in the backend the rows were loaded from, and the   *)
(* other backend was never written.                                        *)
(***************************************************************************)
C3_PersistedAtEnd ==
    pc = "done" =>
        /\ \A k \in RowIds : SentTo(k) => Cell(Backend, k, "Contacted") = "Yes"
        /\ OtherBackend = orig

(***************************************************************************)
(* C3 amended: a row whose send returned true is marked Yes in memory, and *)
(* exactly one write-back is made for it, to the backend the rows were     *)
(* loaded from; the backend holds Yes for the row if that write-back       *)
(* succeeded; no write-back is made for any other row, and the other       *)
(* backend is never written.                                               *)
(***************************************************************************)
C3_PersistedIfUpdateSucceeds ==
    Started =>
        /\ \A k \in RowIds :
              /\ SentTo(k) =>
                    /\ df.rows[k + 1].Contacted = "Yes"
                    /\ Cardinality(WritesOf(k)) = 1
                    /\ \A n \in WritesOf(k) :
                          /\ writes[n].backend = BackendName
                          /\ writes[n].ok => Cell(Backend, k, "Contacted") = "Yes"
              /\ ~SentTo(k) => WritesOf(k) = {}
        /\ OtherBackend = orig

\* Two rows were sent to from the worksheet: one update went through, one did not.
C3_Witness ==
    /\ pc = "done"
    /\ using_google_sheets
    /\ Len(writes) = 2
    /\ writes[1].ok /\ Cell(sheet, writes[1].row, "Contacted") = "Yes"
    /\ ~writes[2].ok /\ Cell(sheet, writes[2].row, "Contacted") = "No"

(***************************************************************************)
(* C5: send_email returns false when the subject or the body is empty;     *)
(* when it returned false for a row, it was invoked once for that row (no  *)
(* retry), the row's Contacted is No in memory and in the backend, no      *)
(* write-back was made for the row, and the loop has moved past the row.   *)
(***************************************************************************)
C5_FailedEmailLeavesRow ==
    \A n \in 1..Len(calls) :
        LET c == calls[n] IN
        c.fn = "send_email" =>
            /\ (c.message = <<>> \/ c.subject = <<>>) => ~c.ret
            /\ ~c.ret =>
                  /\ Cardinality(CallsOf(c.row)) = 1
                  /\ df.rows[c.row + 1].Contacted = "No"
                  /\ Cell(Backend, c.row, "Contacted") = "No"
                  /\ WritesOf(c.row) = {}
                  /\ i > c.row

\* An email with an empty subject, then one the transport failed on; the run ended.
C5_Witness ==
    /\ pc = "done"
    /\ Len(calls) = 2
    /\ calls[1].fn = "send_email" /\ calls[1].subject = <<>> /\ ~calls[1].ret
    /\ calls[2].fn = "send_email" /\ calls[2].subject # <<>> /\ ~calls[2].ret
    /\ Len(verdicts) = 2

(***************************************************************************)
(* C6: the backend is selected once, before any row is processed: the      *)
(* worksheet is tried first and the file only after it; the flag never     *)
(* changes once selected, and every write-back goes to the backend the     *)
(* rows were loaded from.                                                  *)
(***************************************************************************)
C6_BackendSelectedOnce ==
    /\ [](/\ pc = "select" => attempts = <<>> /\ verdicts = <<>> /\ calls = <<>> /\ writes = <<>>
          /\ pc # "select" =>
                /\ attempts \in {<<"sheets">>, <<"sheets", "csv">>}
                /\ using_google_sheets <=> attempts = <<"sheets">>
          /\ Started => Len(df.rows) = Len(Loaded.rows)
          /\ \A n \in 1..Len(writes) : writes[n].backend = BackendName)
    /\ [][pc # "select" => /\ using_google_sheets' = using_google_sheets
                           /\ attempts' = attempts]_vars

\* After the fall-back, two rows were written back, both to the file.
C6_Witness ==
    /\ pc = "done"
    /\ attempts = <<"sheets", "csv">>
    /\ ~using_google_sheets
    /\ Len(writes) = 2
    /\ writes[1].backend = "csv" /\ writes[2].backend = "csv"
    /\ sheet = orig

C9_InstagramNeverMarked ==
    Started =>
        /\ \A n \in 1..Len(calls) : calls[n].fn = "send_instagram" => ~calls[n].ret
        /\ \A k \in RowIds :
              (Loaded.rows[k + 1].Channel = "instagram" /\ Cell(orig, k, "Contacted") = "No")
              => /\ df.rows[k + 1].Contacted = "No"
                 /\ Cell(Backend, k, "Contacted") = "No"
                 /\ WritesOf(k) = {}

\* An instagram row passed validation, was rendered and handed to send_instagram,
\* and a later row was sent by email and written back.
C9_Witness ==
    /\ pc = "done"
    /\ Len(calls) = 2
    /\ calls[1].fn = "send_instagram" /\ calls[1].row \in rendered
    /\ calls[2].fn = "send_email" /\ calls[2].ret
    /\ Cell(Backend, calls[1].row, "Contacted") = "No"
    /\ Cell(Backend, calls[2].row, "Contacted") = "Yes"

(***************************************************************************)
(* C2 as stated: the run changes nothing but Contacted, from No to Yes, of *)
(* a row whose send returned true, in memory and in the backend; every     *)
(* other row keeps every field, and no row is added or deleted.            *)
(***************************************************************************)
C2_OnlyContactedChanges ==
    Started =>
        /\ Len(df.rows) = Len(Loaded.rows)
        /\ Len(Backend) = Len(orig)
        /\ \A k \in RowIds : \A c \in 1..Len(df.columns) :
              LET column == df.columns[c] IN
              /\ df.rows[k + 1][column] # Loaded.rows[k + 1][column]
                 => /\ column = "Contacted" /\ SentTo(k)
                    /\ Loaded.rows[k + 1][column] = "No" /\ df.rows[k + 1][column] = "Yes"
              /\ Cell(Backend, k, column) # Cell(orig, k, column)
                 => /\ column = "Contacted" /\ SentTo(k)
                    /\ Cell(orig, k, column) = "No" /\ Cell(Backend, k, column) = "Yes"

(***************************************************************************)
(* C4 as stated: once the rows are loaded nothing is fatal: the rows are   *)
(* visited in load order, the run never aborts inside the loop, and at its *)
(* end every row was visited once.                                         *)
(***************************************************************************)
C4_NothingFatal ==
    /\ pc # "crashed"
    /\ \A n \in 1..Len(verdicts) : verdicts[n].row = n - 1
    /\ pc = "done" => Len(verdicts) = Len(df.rows)

(***************************************************************************)
(* C7 as stated: check_row returns true exactly for the rows of the data   *)
(* source that pass the ten rules, checked in order; it prints the         *)
(* diagnostic of the first failing rule only; only the rows it returned    *)
(* true for are rendered and sent.                                         *)
(***************************************************************************)
\* The first of the ten rules the row (its cells as the data source holds them)
\* fails, 0 when it passes all.
FirstFailingRule(r) ==
    IF r.Channel \notin {"email", "instagram", "soundcloud"} THEN 1
    ELSE IF r.Channel = "email" /\ ~match_email(HandleChars[r.Handle]) THEN 2
    ELSE IF r.Channel = "instagram" /\ ~match_handle(HandleChars[r.Handle]) THEN 3
    ELSE IF r.Channel = "soundcloud" THEN 4
    ELSE IF r.Name = "" THEN 5
    ELSE IF r.Event_Name = "" THEN 6
    ELSE IF r.Language \notin {"EN", "FR"} THEN 7
    ELSE IF <<r.Message_Type, r.Language>> \notin DOMAIN TemplateFiles THEN 8
    ELSE IF r.Contacted \notin {"Yes", "No"} THEN 9
    ELSE IF r.Contacted = "Yes" THEN 10
    ELSE 0

DiagnosticOfRule ==
    <<"Invalid channel", "Invalid email", "Invalid Instagram handle",
      "Soundcloud not supported yet", "Empty Name", "Empty Event Name",
      "Invalid language", "Message file not found", "Invalid contacted",
      "Already contacted">>

\* C7: every verdict of check_row is that of the ten rules on the row's cells,
\* with the first failing rule's diagnostic only, and only accepted rows are
\* rendered or sent to.
C7_TenRulesInOrder ==
    Started =>
        /\ \A n \in 1..Len(verdicts) :
              LET v    == verdicts[n]
                  rule == FirstFailingRule(get_data_from_google_sheets(orig).rows[v.row + 1])
              IN  /\ ~v.raised
                  /\ v.ret <=> rule = 0
                  /\ v.out = IF rule = 0 THEN <<>> ELSE <<DiagnosticOfRule[rule]>>
        /\ \A k \in rendered \cup {calls[n].row : n \in 1..Len(calls)} :
              \E n \in 1..Len(verdicts) : verdicts[n].row = k /\ verdicts[n].ret

(***************************************************************************)
(* C10: after a write-back of Contacted = Yes for data row i succeeded, a  *)
(* fresh load from the same backend gives the table loaded before with     *)
(* Contacted = Yes in row i and every other cell as it was; in the         *)
(* worksheet the one cell written is in sheet row i + 2, in the column     *)
(* whose header is Contacted.                                              *)
(***************************************************************************)
C10_UpdateLoadRoundTrip ==
    (pc = "reloaded" /\ writes[1].ok) =>
        /\ fresh.columns = Loaded.columns
        /\ Len(fresh.rows) = Len(Loaded.rows)
        /\ \A r \in 1..Len(fresh.rows) : \A c \in 1..Len(fresh.columns) :
              LET column == fresh.columns[c] IN
              fresh.rows[r][column] =
                  IF r = i + 1 /\ column = "Contacted" THEN "Yes"
                  ELSE Loaded.rows[r][column]
        /\ using_google_sheets =>
              /\ Len(sheet) = Len(orig)
              /\ \A r \in 1..Len(sheet) :
                    /\ Len(sheet[r]) = Len(orig[r])
                    /\ \A c \in 1..Len(sheet[r]) :
                          sheet[r][c] # orig[r][c] => r = i + 2 /\ orig[1][c] = "Contacted"
              /\ sheet[i + 2][index(orig[1], "Contacted")] = "Yes"

\* The second data row of a worksheet whose Contacted column comes first was
\* updated from No, and the fresh load shows Yes there.
C10_Witness ==
    /\ pc = "reloaded"
    /\ using_google_sheets
    /\ writes[1].ok
    /\ i = 1
    /\ orig[1] = <<"Contacted", "Name">>
    /\ orig[3][1] = "No"
    /\ sheet[3][1] = "Yes"
    /\ fresh.rows[2].Contacted = "Yes"
    /\ fresh.rows[1] = Loaded.rows[1]

=============================================================================
